---- MODULE Spec2Model ----
(***************************************************************************)
(* diffalayze: the orchestration layer of src/diffalayze.py.               *)
(*                                                                         *)
(* The main thread runs load_and_run for every target, which starts one    *)
(* worker thread (_ghidriff_worker) per reported artifact pair; monitor    *)
(* polls the threads' liveness; with --analyze the archives queued by the  *)
(* workers are then handed one after the other to run_llmanalyze, which    *)
(* runs utils/llmanalyze.py as a subprocess with check=True.               *)
(*                                                                         *)
(* A target is identified by its index in the iteration order of           *)
(* TARGETS_DIR.iterdir(); directory names are pairwise distinct, so the    *)
(* index stands for t_dir.name as well. Directory entries that resolve to  *)
(* the same directory, the providers' version tracking and --force are     *)
(* the subject of the specification RunsSpec below, over the variables     *)
(* runVars: a sequence of runs of diffalayze.py over one targets tree.     *)
(* The fetch providers, the diffing engine and llmanalyze.py are external  *)
(* to this layer: each is modelled by the outcomes the caller can observe. *)
(*                                                                         *)
(* utils/llmanalyze.py, the analysis pipeline that runs as that            *)
(* subprocess, is a process of its own with a state of its own: it is      *)
(* modelled by the specification PipeSpec below, over the variables        *)
(* pipeVars, which the orchestration layer never touches.                  *)
(***************************************************************************)
EXTENDS Integers, Sequences, FiniteSets, TLC

\* Bounds of the model.
MaxTargets == 2      \* at most this many target directories
MaxThreads == 2      \* largest --ghidriff-threads value tried

Targets == 1..MaxTargets

\* Values of args.ghidriff_threads (type=int: negative values are accepted).
ArgThreads == (0 - 1)..MaxThreads

\* What load_and_run can observe of one target's fetch-check:
\*   pair      check_and_download returned a 2-tuple of non-empty paths
\*   noupdate  it returned False
\*   error     it returned anything else, e.g. ("", "")
\*   noscript  fetch_target.py or check_and_download is missing (early return)
\*   raise     resolve_target_dir, the script or the provider raised
Results == {"pair", "noupdate", "error", "noscript", "raise"}

VARIABLES
    argThreads,        \* args.ghidriff_threads
    GHIDRIFF_THREADS,  \* global, line 288
    ANALYZE,           \* global, line 282
    nT,                \* number of targets the run iterates over
    sema,              \* _ghidriff_sema: [none |-> BOOLEAN, value |-> Int]
    mainpc,            \* position of the main thread
    ti,                \* target the main loop is at
    res,               \* result of check_and_download for target ti
    ghidriff_threads,  \* the pool: sequence of [n |-> name, th |-> thread]
    pc,                \* position of each worker thread
    engine,            \* exit of each job's engine invocation
    raised,            \* whether an uncaught exception ended the job's thread
    workdir,           \* state of <target>/ghidriffs for each job
    attempts,          \* engine invocations per job
    analyze_queue,     \* sequence of archived targets, in completion order
    done,              \* monitor's local set of finished names
    mi,                \* monitor's position in its for loop over the pool
    ai,                \* position of the analysis loop in analyze_queue
    inflight,          \* queue positions whose llmanalyze subprocess runs
    handed,            \* run_llmanalyze calls per queue position
    result,            \* outcome of the analysis per queue position
    \* utils/llmanalyze.py (one run of the pipeline)
    trigger_cmd,       \* args.trigger_cmd is given
    threshold,         \* args.level_threshold
    input_dir,         \* names of the *.md files in args.input
    ppc,               \* position of the run
    shared,            \* the shared dict of the flow
    results,           \* the local list of AnalyzeEachDoc.exec
    llm_calls,         \* the user contents sent to the backend, in order
    eval_in,           \* the evaluation response and its decoding
    trigger_calls,     \* the lines written to the trigger command's stdin
    ran,               \* how many times each stage has run
    report,            \* what has been written to args.output
    \* several runs of diffalayze.py over one targets directory
    links,             \* number of symbolic links in TARGETS_DIR
    latest,            \* the newest version in the winbindex data
    version_log,       \* targets/mrxsmb/version.log: [exists, text]
    force,             \* args.force of the current run
    run,               \* number of the current run
    rpc,               \* position of the current run's main thread
    ei,                \* entry the loop over TARGETS_DIR is at
    chk,               \* the last check_and_download call and its result
    pool,              \* ghidriff_threads of the current run, with job states
    reported,          \* history: the versions reported as a pair
    failed             \* history: the versions whose engine run failed

vars == <<argThreads, GHIDRIFF_THREADS, ANALYZE, nT, sema, mainpc, ti, res,
          ghidriff_threads, pc, engine, raised, workdir, attempts,
          analyze_queue, done, mi, ai, inflight, handed, result>>

cfgVars == <<argThreads, GHIDRIFF_THREADS, ANALYZE, nT>>
jobVars == <<pc, engine, raised, workdir, attempts>>
monVars == <<done, mi>>
anaVars == <<ai, inflight, handed, result>>
pipeVars == <<trigger_cmd, threshold, input_dir, ppc, shared, results,
              llm_calls, eval_in, trigger_calls, ran, report>>

runVars == <<links, latest, version_log, force, run, rpc, ei, chk, pool,
             reported, failed>>

\* One run, one pipeline run: the history of runs is not followed.
RunsOff ==
    /\ links = 0
    /\ latest = 0
    /\ version_log = <<>>
    /\ force = FALSE
    /\ run = 0
    /\ rpc = "off"
    /\ ei = 0
    /\ chk = <<>>
    /\ pool = <<>>
    /\ reported = {}
    /\ failed = {}

\* llmanalyze.py is not running: diffalayze.py holds none of its state.
PipeOff ==
    /\ trigger_cmd = FALSE
    /\ threshold = "off"
    /\ input_dir = {}
    /\ ppc = "off"
    /\ shared = <<>>
    /\ results = <<>>
    /\ llm_calls = <<>>
    /\ eval_in = <<>>
    /\ trigger_calls = <<>>
    /\ ran = <<>>
    /\ report = <<>>

----------------------------------------------------------------------------
\* Helpers

\* max(0, int(args.ghidriff_threads))
Clamp(x) == IF x > 0 THEN x ELSE 0

MakeSemaAlways(n) == [none |-> FALSE, value |-> n]
\* None if GHIDRIFF_THREADS == 0 else threading.Semaphore(GHIDRIFF_THREADS)
MakeSema(n) == IF n = 0 THEN [none |-> TRUE, value |-> 0]
                        ELSE [none |-> FALSE, value |-> n]

CanAcquireAlways(s) == TRUE
\* _ghidriff_worker passes its entry when there is no semaphore, or when the
\* semaphore's counter is positive (Semaphore.__enter__ blocks at zero).
CanAcquire(s) == s.none \/ s.value > 0

Acquire(s) == IF s.none THEN s ELSE [s EXCEPT !.value = @ - 1]
Release(s) == IF s.none THEN s ELSE [s EXCEPT !.value = @ + 1]

PoolNameConst(t) == 1
\* The name a job is recorded under in the pool: t_dir.name
PoolName(t) == t

\* th.is_alive()
IsAlive(t) == pc[t] \notin {"none", "dead"}

\* The loop over the targets: the next target, or monitor after the last one.
AfterTarget(t) == IF t + 1 > nT THEN "mon_enter" ELSE "fetch"

InEngineSection(t) == pc[t] \in {"move", "engine", "archive"}
HoldsSlot(t)       == pc[t] \in {"move", "engine", "archive", "exit"}

----------------------------------------------------------------------------
Init ==
    /\ argThreads \in ArgThreads
    /\ GHIDRIFF_THREADS = Clamp(argThreads)
    /\ ANALYZE \in BOOLEAN
    /\ nT \in 0..MaxTargets
    /\ sema = MakeSema(GHIDRIFF_THREADS)
    /\ mainpc = AfterTarget(0)
    /\ ti = 1
    /\ res = "none"
    /\ ghidriff_threads = <<>>
    /\ pc = [t \in Targets |-> "none"]
    /\ engine = [t \in Targets |-> "none"]
    /\ raised = [t \in Targets |-> FALSE]
    /\ workdir = [t \in Targets |-> "absent"]
    /\ attempts = [t \in Targets |-> 0]
    /\ analyze_queue = <<>>
    /\ done = {}
    /\ mi = 1
    /\ ai = 1
    /\ inflight = {}
    /\ handed = [i \in Targets |-> 0]
    /\ result = [i \in Targets |-> "none"]
    /\ PipeOff
    /\ RunsOff

----------------------------------------------------------------------------
\* Main thread: the loop over the targets

\* load_and_run up to and including the call of check_and_download.
FetchCheck ==
    /\ mainpc = "fetch"
    /\ \E r \in Results :
         \/ /\ r = "raise"
            /\ mainpc' = "fetch_crashed"
            /\ UNCHANGED <<ti, res>>
         \/ /\ r = "noscript"
            /\ mainpc' = AfterTarget(ti)
            /\ ti' = ti + 1
            /\ UNCHANGED res
         \/ /\ r \in {"pair", "noupdate", "error"}
            /\ res' = r
            /\ mainpc' = "dispatch"
            /\ UNCHANGED ti
    /\ UNCHANGED <<runVars, pipeVars, cfgVars, sema, ghidriff_threads, jobVars, analyze_queue,
                   monVars, anaVars>>

\* A submitter that takes the slot itself before starting the thread.
DispatchBlocking ==
    /\ mainpc = "dispatch"
    /\ IF res = "pair"
         THEN /\ CanAcquire(sema)
              /\ pc' = [pc EXCEPT ![ti] = "wait"]
              /\ ghidriff_threads' =
                    Append(ghidriff_threads, [n |-> PoolName(ti), th |-> ti])
         ELSE UNCHANGED <<pc, ghidriff_threads>>
    /\ res' = "none"
    /\ mainpc' = AfterTarget(ti)
    /\ ti' = ti + 1
    /\ UNCHANGED <<runVars, pipeVars, cfgVars, sema, engine, raised, workdir, attempts, analyze_queue,
                   monVars, anaVars>>

DispatchAnyResult ==
    /\ mainpc = "dispatch"
    /\ pc' = [pc EXCEPT ![ti] = "wait"]
    /\ ghidriff_threads' =
          Append(ghidriff_threads, [n |-> PoolName(ti), th |-> ti])
    /\ res' = "none"
    /\ mainpc' = AfterTarget(ti)
    /\ ti' = ti + 1
    /\ UNCHANGED <<runVars, pipeVars, cfgVars, sema, engine, raised, workdir, attempts, analyze_queue,
                   monVars, anaVars>>

\* load_and_run after check_and_download returned: a well-formed pair starts
\* a worker thread and records it in the pool; anything else is logged.
Dispatch ==
    /\ mainpc = "dispatch"
    /\ IF res = "pair"
         THEN /\ pc' = [pc EXCEPT ![ti] = "wait"]
              /\ ghidriff_threads' =
                    Append(ghidriff_threads, [n |-> PoolName(ti), th |-> ti])
         ELSE UNCHANGED <<pc, ghidriff_threads>>
    /\ res' = "none"
    /\ mainpc' = AfterTarget(ti)
    /\ ti' = ti + 1
    /\ UNCHANGED <<runVars, pipeVars, cfgVars, sema, engine, raised, workdir, attempts, analyze_queue,
                   monVars, anaVars>>

----------------------------------------------------------------------------
\* Worker threads

\* _ghidriff_worker: enter run_ghidriff_diff, through the semaphore if any.
WorkerEnter(t) ==
    /\ pc[t] = "wait"
    /\ CanAcquire(sema)
    /\ sema' = Acquire(sema)
    /\ pc' = [pc EXCEPT ![t] = "move"]
    /\ UNCHANGED <<runVars, pipeVars, cfgVars, mainpc, ti, res, ghidriff_threads, engine, raised,
                   workdir, attempts, analyze_queue, monVars, anaVars>>

\* run_ghidriff_diff: create the working directory and move the two inputs
\* into it. shutil.move may raise, which ends the thread.
MoveInputs(t) ==
    /\ pc[t] = "move"
    /\ workdir' = [workdir EXCEPT ![t] = "present"]
    /\ \/ /\ pc' = [pc EXCEPT ![t] = "engine"]
          /\ UNCHANGED raised
       \/ /\ pc' = [pc EXCEPT ![t] = "exit"]
          /\ raised' = [raised EXCEPT ![t] = TRUE]
    /\ UNCHANGED <<runVars, pipeVars, cfgVars, sema, mainpc, ti, res, ghidriff_threads, engine,
                   attempts, analyze_queue, monVars, anaVars>>

\* An engine failure that falls through to the archiving code.
EngineFailedFallsThrough(t) ==
    /\ engine' = [engine EXCEPT ![t] = "failed"]
    /\ pc' = [pc EXCEPT ![t] = "archive"]
    /\ UNCHANGED raised

\* except subprocess.CalledProcessError: log the failure and return.
EngineFailed(t) ==
    /\ engine' = [engine EXCEPT ![t] = "failed"]
    /\ pc' = [pc EXCEPT ![t] = "exit"]
    /\ UNCHANGED raised

\* run_ghidriff_diff: one synchronous invocation of the diffing engine
\* (subprocess.run with check=True).
EngineRun(t) ==
    /\ pc[t] = "engine"
    /\ attempts' = [attempts EXCEPT ![t] = @ + 1]
    /\ \/ /\ engine' = [engine EXCEPT ![t] = "ok"]     \* exit status 0
          /\ pc' = [pc EXCEPT ![t] = "archive"]
          /\ UNCHANGED raised
       \/ EngineFailed(t)                              \* CalledProcessError
       \/ /\ pc' = [pc EXCEPT ![t] = "exit"]           \* any other exception
          /\ raised' = [raised EXCEPT ![t] = TRUE]
          /\ UNCHANGED engine
    /\ UNCHANGED <<runVars, pipeVars, cfgVars, sema, mainpc, ti, res, ghidriff_threads, workdir,
                   analyze_queue, monVars, anaVars>>

\* run_ghidriff_diff after the engine: move the working directory to the
\* archive and, with --analyze, queue it. shutil.move may raise.
Archive(t) ==
    /\ pc[t] = "archive"
    /\ pc' = [pc EXCEPT ![t] = "exit"]
    /\ \/ /\ workdir' = [workdir EXCEPT ![t] = "archived"]
          /\ analyze_queue' = IF ANALYZE THEN Append(analyze_queue, t)
                                         ELSE analyze_queue
          /\ UNCHANGED raised
       \/ /\ raised' = [raised EXCEPT ![t] = TRUE]
          /\ UNCHANGED <<workdir, analyze_queue>>
    /\ UNCHANGED <<runVars, pipeVars, cfgVars, sema, mainpc, ti, res, ghidriff_threads, engine,
                   attempts, monVars, anaVars>>

\* A worker that gives its slot back only when run_ghidriff_diff returned.
WorkerExitLeak(t) ==
    /\ pc[t] = "exit"
    /\ sema' = IF raised[t] THEN sema ELSE Release(sema)
    /\ pc' = [pc EXCEPT ![t] = "dead"]
    /\ UNCHANGED <<runVars, pipeVars, cfgVars, mainpc, ti, res, ghidriff_threads, engine, raised,
                   workdir, attempts, analyze_queue, monVars, anaVars>>

\* _ghidriff_worker returns: the with block releases the semaphore and the
\* thread ends, whether run_ghidriff_diff returned or raised.
WorkerExit(t) ==
    /\ pc[t] = "exit"
    /\ sema' = Release(sema)
    /\ pc' = [pc EXCEPT ![t] = "dead"]
    /\ UNCHANGED <<runVars, pipeVars, cfgVars, mainpc, ti, res, ghidriff_threads, engine, raised,
                   workdir, attempts, analyze_queue, monVars, anaVars>>

----------------------------------------------------------------------------
\* Main thread: monitor

\* monitor: return at once on an empty pool, else start with done = set().
MonitorEnter ==
    /\ mainpc = "mon_enter"
    /\ done' = {}
    /\ mainpc' = IF ghidriff_threads = <<>> THEN "analyze" ELSE "mon_while"
    /\ UNCHANGED <<runVars, pipeVars, cfgVars, sema, ti, res, ghidriff_threads, jobVars,
                   analyze_queue, mi, anaVars>>

MonitorExitEarly == Cardinality(done) >= 1
\* not (len(done) < len(pool))
MonitorExit == Cardinality(done) >= Len(ghidriff_threads)

\* while len(done) < len(pool): start the next sweep, or return.
MonitorWhile ==
    /\ mainpc = "mon_while"
    /\ IF MonitorExit
         THEN mainpc' = "analyze" /\ UNCHANGED mi
         ELSE mainpc' = "mon_for" /\ mi' = 1
    /\ UNCHANGED <<runVars, pipeVars, cfgVars, sema, ti, res, ghidriff_threads, jobVars,
                   analyze_queue, done, anaVars>>

CountsAsDoneAny(e) == e.n \notin done
\* if not th.is_alive() and n not in done
CountsAsDone(e) == ~IsAlive(e.th) /\ e.n \notin done

\* for n, th in pool: one element of the sweep; time.sleep after the last.
MonitorFor ==
    /\ mainpc = "mon_for"
    /\ LET e == ghidriff_threads[mi] IN
         done' = IF CountsAsDone(e) THEN done \cup {e.n} ELSE done
    /\ IF mi + 1 > Len(ghidriff_threads)
         THEN mainpc' = "mon_while" /\ mi' = 1
         ELSE mainpc' = "mon_for" /\ mi' = mi + 1
    /\ UNCHANGED <<runVars, pipeVars, cfgVars, sema, ti, res, ghidriff_threads, jobVars,
                   analyze_queue, anaVars>>

----------------------------------------------------------------------------
\* Main thread: the analysis loop

\* if ANALYZE: for t, a in analyze_queue -- nothing (left) to analyze.
AnalyzeEnd ==
    /\ mainpc = "analyze"
    /\ ~ANALYZE \/ ai > Len(analyze_queue)
    /\ mainpc' = "done"
    /\ UNCHANGED <<runVars, pipeVars, cfgVars, sema, ti, res, ghidriff_threads, jobVars,
                   analyze_queue, monVars, anaVars>>

\* A run_llmanalyze that starts the subprocess without waiting for it.
RunLlmanalyzeNoWait ==
    /\ mainpc = "analyze"
    /\ ANALYZE /\ ai <= Len(analyze_queue)
    /\ handed' = [handed EXCEPT ![ai] = @ + 1]
    /\ inflight' = inflight \cup {ai}
    /\ ai' = ai + 1
    /\ UNCHANGED <<runVars, pipeVars, cfgVars, sema, mainpc, ti, res, ghidriff_threads, jobVars,
                   analyze_queue, monVars, result>>

\* A run_llmanalyze that raises on a missing sxs_html directory.
RunLlmanalyzeSkipFatal ==
    /\ mainpc = "analyze"
    /\ ANALYZE /\ ai <= Len(analyze_queue)
    /\ handed' = [handed EXCEPT ![ai] = @ + 1]
    /\ \/ /\ result' = [result EXCEPT ![ai] = "skipped"]
          /\ mainpc' = "analyze_crashed"
          /\ UNCHANGED <<ai, inflight>>
       \/ /\ inflight' = inflight \cup {ai}
          /\ mainpc' = "analyze_wait"
          /\ UNCHANGED <<ai, result>>
    /\ UNCHANGED <<runVars, pipeVars, cfgVars, sema, ti, res, ghidriff_threads, jobVars,
                   analyze_queue, monVars>>

\* run_llmanalyze up to the start of the subprocess: a missing sxs_html
\* directory is reported and the entry skipped; else llmanalyze.py starts.
RunLlmanalyze ==
    /\ mainpc = "analyze"
    /\ ANALYZE /\ ai <= Len(analyze_queue)
    /\ handed' = [handed EXCEPT ![ai] = @ + 1]
    /\ \/ /\ result' = [result EXCEPT ![ai] = "skipped"]
          /\ ai' = ai + 1
          /\ UNCHANGED <<mainpc, inflight>>
       \/ /\ inflight' = inflight \cup {ai}
          /\ mainpc' = "analyze_wait"
          /\ UNCHANGED <<ai, result>>
    /\ UNCHANGED <<runVars, pipeVars, cfgVars, sema, ti, res, ghidriff_threads, jobVars,
                   analyze_queue, monVars>>

\* subprocess.run(cmd, check=True) returns when llmanalyze.py exits: with
\* status 0 the loop goes on; a non-zero status raises CalledProcessError,
\* which nothing catches, so the main thread ends there. The optional
\* time.sleep(ANALYZE_SLEEP) after a run changes no state.
PipelineExit ==
    /\ mainpc = "analyze_wait"
    /\ inflight' = inflight \ {ai}
    /\ \/ /\ result' = [result EXCEPT ![ai] = "ok"]
          /\ ai' = ai + 1
          /\ mainpc' = "analyze"
       \/ /\ result' = [result EXCEPT ![ai] = "failed"]
          /\ mainpc' = "analyze_crashed"
          /\ UNCHANGED ai
    /\ UNCHANGED <<runVars, pipeVars, cfgVars, sema, ti, res, ghidriff_threads, jobVars,
                   analyze_queue, monVars, handed>>

----------------------------------------------------------------------------
MainStep ==
    \/ FetchCheck
    \/ Dispatch
    \/ MonitorEnter
    \/ MonitorWhile
    \/ MonitorFor
    \/ AnalyzeEnd
    \/ RunLlmanalyze
    \/ PipelineExit

WorkerStep(t) ==
    \/ WorkerEnter(t)
    \/ MoveInputs(t)
    \/ EngineRun(t)
    \/ Archive(t)
    \/ WorkerExit(t)

Next == MainStep \/ \E t \in Targets : WorkerStep(t)

Spec == Init /\ [][Next]_vars

\* Every thread that can take a step eventually takes one (the operating
\* system schedules every runnable thread, every subprocess terminates).
FairSpec == Spec /\ WF_vars(MainStep) /\ \A t \in Targets : WF_vars(WorkerStep(t))

----------------------------------------------------------------------------
\* utils/llmanalyze.py and utils/llm_client.py: texts and JSON
\*
\* A text is a sequence of tokens, a token a pair <<tag, n>>. The model
\* backend is external: its reply to a message is the symbolic text "the
\* reply to this content", or the call raises.

MaxDocs == 2         \* at most this many documents in the input directory
MaxWrap == 4         \* the evaluation reply is re-encoded at most this often

\* for _ in range(3)
RobustAttempts == 3

LEVELS == <<"NONE", "LOW", "MEDIUM", "HIGH", "CRITICAL">>
LevelSet == {LEVELS[i] : i \in 1..Len(LEVELS)}

\* str.upper() on the level tokens of the model.
Upper(a) ==
    CASE a = "high" -> "HIGH"
      [] a = "None" -> "NONE"
      [] OTHER      -> a

\* LEVELS.index(x): the position of x, or 0 where Python raises ValueError.
IndexOf(x) ==
    IF \E i \in 1..Len(LEVELS) : LEVELS[i] = x
      THEN CHOOSE i \in 1..Len(LEVELS) : LEVELS[i] = x
      ELSE 0

level_ge_strict(a, b) == IndexOf(Upper(a)) > IndexOf(Upper(b))
\* level_ge: False when either token is not on the scale.
level_ge(a, b) ==
    IF IndexOf(Upper(a)) = 0 \/ IndexOf(Upper(b)) = 0
      THEN FALSE
      ELSE IndexOf(Upper(a)) >= IndexOf(Upper(b))

\* A JSON object: the keys it has and their values. JsonNull is JSON's null
\* (Python's None) as a value.
JsonNull == "<null>"
NoMapping == [keys |-> {}, level |-> JsonNull, security_score |-> JsonNull]

\* dict.get(key, default)
Get(m, key, default) == IF key \in m.keys THEN m[key] ELSE default

\* str(x)
Str(x) == IF x = JsonNull THEN "None" ELSE x

\* The characters of a JSON text: the quote, the backslash, an object
\* literal, a number literal, and a character that starts no JSON value.
JQ      == <<"q", NoMapping>>
JB      == <<"b", NoMapping>>
JObj(m) == <<"obj", m>>
JNum    == <<"num", NoMapping>>
JBad    == <<"bad", NoMapping>>

RECURSIVE Escape(_)
\* The body of a JSON string literal for the text s.
Escape(s) ==
    IF s = <<>> THEN <<>>
    ELSE (IF Head(s)[1] \in {"q", "b"} THEN <<JB, Head(s)>> ELSE <<Head(s)>>)
         \o Escape(Tail(s))

\* json.dumps of a str, and of a dict
DumpsStr(s) == <<JQ>> \o Escape(s) \o <<JQ>>
DumpsObj(m) == <<JObj(m)>>

RECURSIVE Unescape(_)
\* The text of a JSON string literal's body; ok is FALSE on a bare quote or
\* a dangling backslash.
Unescape(s) ==
    IF s = <<>> THEN [ok |-> TRUE, text |-> <<>>]
    ELSE IF Head(s)[1] = "b"
      THEN IF Len(s) >= 2 /\ s[2][1] \in {"q", "b"}
             THEN LET r == Unescape(SubSeq(s, 3, Len(s))) IN
                    [ok |-> r.ok, text |-> <<s[2]>> \o r.text]
             ELSE [ok |-> FALSE, text |-> <<>>]
    ELSE IF Head(s)[1] = "q"
      THEN [ok |-> FALSE, text |-> <<>>]
    ELSE LET r == Unescape(Tail(s)) IN
           [ok |-> r.ok, text |-> <<Head(s)>> \o r.text]

JsonError == [kind |-> "error", dict |-> NoMapping, str |-> <<>>]

\* json.loads: a dict, a str, another value, or JSONDecodeError.
Loads(txt) ==
    IF Len(txt) = 1 /\ txt[1][1] = "obj"
      THEN [kind |-> "dict", dict |-> txt[1][2], str |-> <<>>]
    ELSE IF Len(txt) = 1 /\ txt[1][1] = "num"
      THEN [kind |-> "other", dict |-> NoMapping, str |-> <<>>]
    ELSE IF Len(txt) >= 2 /\ txt[1][1] = "q" /\ txt[Len(txt)][1] = "q"
      THEN LET r == Unescape(SubSeq(txt, 2, Len(txt) - 1)) IN
             IF r.ok THEN [kind |-> "str", dict |-> NoMapping, str |-> r.text]
                     ELSE JsonError
    ELSE JsonError

RECURSIVE Decode(_, _, _)
\* The loop of _robust_json with n rounds left: obj is parsed again while it
\* is a str. parses counts the calls of json.loads.
Decode(obj, n, parses) ==
    IF n = 0 \/ obj.kind # "str"
      THEN [obj |-> obj, parses |-> parses]
      ELSE Decode(Loads(obj.str), n - 1, parses + 1)

RobustJsonOneMore(txt) ==
    Decode([kind |-> "str", dict |-> NoMapping, str |-> txt],
           RobustAttempts + 1, 0)
\* _robust_json: ok with the dict, or ValueError (JSONDecodeError from
\* json.loads, or "response is not a JSON object").
RobustJson(txt) ==
    Decode([kind |-> "str", dict |-> NoMapping, str |-> txt],
           RobustAttempts, 0)

RECURSIVE Wrap(_, _)
\* The JSON text of the mapping m, re-encoded k times as a JSON string.
Wrap(m, k) == IF k = 0 THEN DumpsObj(m) ELSE DumpsStr(Wrap(m, k - 1))

----------------------------------------------------------------------------
\* utils/llmanalyze.py: the flow and its shared dict

DocNames == 1..MaxDocs

\* The levels an evaluation reply may carry: the scale, a lower-case token,
\* a token that is not on the scale, and null.
LevelValues == LevelSet \cup {"high", "BOGUS", JsonNull}
ScoreValues == {"7"}

\* The JSON objects an evaluation reply may hold: each key present or not.
Mappings ==
    {[keys |-> {"level", "security_score"}, level |-> l, security_score |-> c] :
        l \in LevelValues, c \in ScoreValues}
    \cup {[keys |-> {"level"}, level |-> l, security_score |-> JsonNull] :
        l \in LevelValues}
    \cup {[keys |-> {"security_score"}, level |-> JsonNull, security_score |-> c] :
        c \in ScoreValues}
    \cup {NoMapping}

Stages == {"load", "analyze", "final", "evaluate", "trigger"}

FlowOrderSwapped == <<"load", "final", "analyze", "evaluate", "trigger">>
\* a >> b >> c >> d >> e; Flow(start=a)
FlowOrder == <<"load", "analyze", "final", "evaluate", "trigger">>

\* The node that runs after stage st: its successor, or the end of flow.run.
Successor(st) ==
    LET i == CHOOSE k \in 1..Len(FlowOrder) : FlowOrder[k] = st IN
      IF i < Len(FlowOrder) THEN FlowOrder[i + 1] ELSE "flow_done"

RaiseSwallowed == "flow_done"
\* An exception in a node propagates out of flow.run and of main: the
\* process ends with a traceback, before the report is written.
Raise == "failed"

\* Tokens of the prompts and of the texts built from them.
UserPrompt(name) == <<name, 0>>
Blank == <<"\n\n", 0>>
Sep   == <<"---", 0>>

\* convert_file: the markdown text of document p.
Convert(p) == << <<"md", p>> >>

\* The backend's reply to a message: a text that names what it answers.
Reply(tag, content) == << <<tag, content[Len(content)][2]>> >>

\* f"{prompt.get('user','')}\n\n{text}"
UserContent(name, text) == <<UserPrompt(name), Blank>> \o text

RECURSIVE GlobDescending(_)
GlobDescending(S) ==
    IF S = {} THEN <<>>
    ELSE LET m == CHOOSE x \in S : \A y \in S : x >= y IN
           <<m>> \o GlobDescending(S \ {m})

RECURSIVE SortedGlob(_)
\* sorted(self.input_dir.glob("*.md"))
SortedGlob(S) ==
    IF S = {} THEN <<>>
    ELSE LET m == CHOOSE x \in S : \A y \in S : x <= y IN
           <<m>> \o SortedGlob(S \ {m})

RECURSIVE Join(_)
\* "\n\n---\n\n".join(texts)
Join(texts) ==
    IF texts = <<>> THEN <<>>
    ELSE IF Len(texts) = 1 THEN texts[1]
    ELSE texts[1] \o <<Sep>> \o Join(Tail(texts))

NoTrigger == [triggered |-> FALSE, returncode |-> 0]
NoEval == [given |-> FALSE, json |-> "none", wraps |-> 0, mapping |-> NoMapping,
           parses |-> 0, ok |-> FALSE]

\* shared = {"prompts": prompts}
SharedInit ==
    [keys |-> {"prompts"}, docs |-> <<>>, doc_analyses |-> <<>>, final |-> <<>>,
     evaluation |-> NoMapping, trigger_result |-> NoTrigger]

\* shared[key] = value
Put(sh, key) == [sh EXCEPT !.keys = @ \cup {key}]

\* diffalayze.py waits in subprocess.run while llmanalyze.py runs.
OrchParked ==
    /\ argThreads = 0
    /\ GHIDRIFF_THREADS = 0
    /\ ANALYZE = TRUE
    /\ nT = 0
    /\ sema = MakeSema(0)
    /\ mainpc = "analyze_wait"
    /\ ti = 1
    /\ res = "none"
    /\ ghidriff_threads = <<>>
    /\ pc = [t \in Targets |-> "none"]
    /\ engine = [t \in Targets |-> "none"]
    /\ raised = [t \in Targets |-> FALSE]
    /\ workdir = [t \in Targets |-> "absent"]
    /\ attempts = [t \in Targets |-> 0]
    /\ analyze_queue = <<>>
    /\ done = {}
    /\ mi = 1
    /\ ai = 1
    /\ inflight = {}
    /\ handed = [i \in Targets |-> 0]
    /\ result = [i \in Targets |-> "none"]

\* main up to flow.run: the arguments, the input directory as it is found.
PipeInit ==
    /\ OrchParked
    /\ RunsOff
    /\ trigger_cmd \in BOOLEAN
    /\ threshold \in LevelSet
    /\ input_dir \in SUBSET DocNames
    /\ ppc = FlowOrder[1]
    /\ shared = SharedInit
    /\ results = <<>>
    /\ llm_calls = <<>>
    /\ eval_in = NoEval
    /\ trigger_calls = <<>>
    /\ ran = [st \in Stages |-> 0]
    /\ report = <<>>

\* LoadMarkdown: prep sorts the paths, exec converts each file (convert_file
\* raises on an unreadable file), post sets shared["docs"].
LoadMarkdown ==
    /\ ppc = "load"
    /\ ran' = [ran EXCEPT !["load"] = @ + 1]
    /\ \/ /\ shared' = [Put(shared, "docs") EXCEPT !.docs =
                 LET paths == SortedGlob(input_dir) IN
                   [i \in 1..Len(paths) |->
                      [path |-> paths[i], markdown |-> Convert(paths[i])]]]
          /\ ppc' = Successor("load")
       \/ /\ input_dir # {}
          /\ ppc' = Raise
          /\ UNCHANGED shared
    /\ UNCHANGED <<runVars, vars, trigger_cmd, threshold, input_dir, results, llm_calls,
                   eval_in, trigger_calls, report>>

\* AnalyzeEachDoc.prep: shared["docs"] (KeyError when it is not there).
AnalyzeEachDocPrep ==
    /\ ppc = "analyze"
    /\ ran' = [ran EXCEPT !["analyze"] = @ + 1]
    /\ results' = <<>>
    /\ ppc' = IF "docs" \in shared.keys THEN "analyze_exec" ELSE "keyerror"
    /\ UNCHANGED <<runVars, vars, trigger_cmd, threshold, input_dir, shared, llm_calls,
                   eval_in, trigger_calls, report>>

PrependResult(rs, r) == <<r>> \o rs
\* results.append(...)
AppendResult(rs, r) == Append(rs, r)

\* AnalyzeEachDoc.exec, one round of its loop: the next document is sent to
\* the backend and the reply appended; a raising call ends the run, and the
\* local results with it.
AnalyzeEachDocExec ==
    /\ ppc = "analyze_exec"
    /\ Len(results) < Len(shared.docs)
    /\ LET d == shared.docs[Len(results) + 1]
           content == UserContent("per_doc", d.markdown) IN
         /\ llm_calls' = Append(llm_calls, content)
         /\ \/ /\ results' = AppendResult(results,
                    [path |-> d.path, analysis |-> Reply("analysis", content)])
               /\ UNCHANGED ppc
            \/ /\ results' = <<>>
               /\ ppc' = Raise
    /\ UNCHANGED <<runVars, vars, trigger_cmd, threshold, input_dir, shared, eval_in,
                   trigger_calls, ran, report>>

\* AnalyzeEachDoc.exec returns and post sets shared["doc_analyses"].
AnalyzeEachDocPost ==
    /\ ppc = "analyze_exec"
    /\ Len(results) >= Len(shared.docs)
    /\ shared' = [Put(shared, "doc_analyses") EXCEPT !.doc_analyses = results]
    /\ ppc' = Successor("analyze")
    /\ UNCHANGED <<runVars, vars, trigger_cmd, threshold, input_dir, results, llm_calls,
                   eval_in, trigger_calls, ran, report>>

\* FinalReport: the analyses joined with the separator go to the backend in
\* one call; post sets shared["final"].
FinalReport ==
    /\ ppc = "final"
    /\ ran' = [ran EXCEPT !["final"] = @ + 1]
    /\ IF "doc_analyses" \notin shared.keys
         THEN ppc' = "keyerror" /\ UNCHANGED <<shared, llm_calls>>
         ELSE LET anns == shared.doc_analyses
                  combined == Join([i \in 1..Len(anns) |-> anns[i].analysis])
                  content == UserContent("final_synthesis", combined) IN
                /\ llm_calls' = Append(llm_calls, content)
                /\ \/ /\ shared' = [Put(shared, "final") EXCEPT !.final =
                                       Reply("final", content)]
                      /\ ppc' = Successor("final")
                   \/ /\ ppc' = Raise
                      /\ UNCHANGED shared
    /\ UNCHANGED <<runVars, vars, trigger_cmd, threshold, input_dir, results, eval_in,
                   trigger_calls, report>>

\* The texts the backend may return to the evaluation call: a mapping
\* re-encoded k times, a JSON value that is no mapping, or no JSON at all.
\* (_strip_think removes <think> blocks and leading blanks before decoding;
\* the texts here are taken after it.)
EvalReplies ==
    {[json |-> "mapping", wraps |-> k, mapping |-> m, text |-> Wrap(m, k)] :
        k \in 0..MaxWrap, m \in Mappings}
    \cup {[json |-> "number", wraps |-> 0, mapping |-> NoMapping, text |-> <<JNum>>],
          [json |-> "number", wraps |-> 1, mapping |-> NoMapping,
           text |-> DumpsStr(<<JNum>>)],
          [json |-> "invalid", wraps |-> 0, mapping |-> NoMapping, text |-> <<JBad>>]}

\* EvaluateFinal: one call_llm_json on the final report; post sets
\* shared["evaluation"] to the decoded dict. A raising call and a reply
\* that _robust_json rejects both end the run.
EvaluateFinal ==
    /\ ppc = "evaluate"
    /\ ran' = [ran EXCEPT !["evaluate"] = @ + 1]
    /\ IF "final" \notin shared.keys
         THEN ppc' = "keyerror" /\ UNCHANGED <<shared, llm_calls, eval_in>>
         ELSE /\ llm_calls' = Append(llm_calls, UserContent("evaluation", shared.final))
              /\ \/ /\ ppc' = Raise
                    /\ UNCHANGED <<shared, eval_in>>
                 \/ \E r \in EvalReplies :
                      LET d == RobustJson(r.text) IN
                        /\ eval_in' = [given |-> TRUE, json |-> r.json,
                                       wraps |-> r.wraps, mapping |-> r.mapping,
                                       parses |-> d.parses,
                                       ok |-> d.obj.kind = "dict"]
                        /\ IF d.obj.kind = "dict"
                             THEN /\ shared' = [Put(shared, "evaluation")
                                                  EXCEPT !.evaluation = d.obj.dict]
                                  /\ ppc' = Successor("evaluate")
                             ELSE /\ ppc' = Raise
                                  /\ UNCHANGED shared
    /\ UNCHANGED <<runVars, vars, trigger_cmd, threshold, input_dir, results,
                   trigger_calls, report>>

TriggerLineThreshold(target, evaluation, level) ==
    [target |-> target,
     score |-> Str(Get(evaluation, "security_score", "N/A")),
     level |-> threshold]
\* f"{target} {evaluation.get('security_score','N/A')} {level}\n"
TriggerLine(target, evaluation, level) ==
    [target |-> target,
     score |-> Str(Get(evaluation, "security_score", "N/A")),
     level |-> level]

\* TriggerTool: without a command, or below the threshold, nothing is run;
\* else the command is run once with the line on its stdin and its exit code
\* recorded. subprocess.run raises when the command cannot be started (and
\* shlex.split on an unbalanced quote), which ends the run.
TriggerTool ==
    /\ ppc = "trigger"
    /\ ran' = [ran EXCEPT !["trigger"] = @ + 1]
    /\ LET evaluation == IF "evaluation" \in shared.keys THEN shared.evaluation
                                                         ELSE NoMapping
           level == Str(Get(evaluation, "level", "NONE")) IN
         IF ~trigger_cmd \/ ~level_ge(level, threshold)
           THEN /\ shared' = [Put(shared, "trigger_result")
                                EXCEPT !.trigger_result = NoTrigger]
                /\ ppc' = Successor("trigger")
                /\ UNCHANGED trigger_calls
           ELSE \/ \E rc \in {0, 1} :
                     /\ trigger_calls' = Append(trigger_calls,
                           [line |-> TriggerLine("target", evaluation, level),
                            started |-> TRUE,
                            after |-> shared.keys])
                     /\ shared' = [Put(shared, "trigger_result")
                                     EXCEPT !.trigger_result =
                                        [triggered |-> TRUE, returncode |-> rc]]
                     /\ ppc' = Successor("trigger")
                \/ /\ trigger_calls' = Append(trigger_calls,
                           [line |-> TriggerLine("target", evaluation, level),
                            started |-> FALSE,
                            after |-> shared.keys])
                   /\ ppc' = Raise
                   /\ UNCHANGED shared
    /\ UNCHANGED <<runVars, vars, trigger_cmd, threshold, input_dir, results, llm_calls,
                   eval_in, report>>

\* main after flow.run: the report is the final text followed by the
\* evaluation section.
WriteReport ==
    /\ ppc = "flow_done"
    /\ IF "final" \notin shared.keys
         THEN ppc' = "keyerror" /\ UNCHANGED report
         ELSE LET evaln == IF "evaluation" \in shared.keys THEN shared.evaluation
                                                           ELSE NoMapping IN
                /\ report' =
                     <<[section |-> "report", text |-> shared.final,
                        level |-> "", score |-> ""],
                       [section |-> "evaluation", text |-> <<>>,
                        level |-> Str(Get(evaln, "level", "UNKNOWN")),
                        score |-> Str(Get(evaln, "security_score", "N/A"))]>>
                /\ ppc' = "written"
    /\ UNCHANGED <<runVars, vars, trigger_cmd, threshold, input_dir, shared, results,
                   llm_calls, eval_in, trigger_calls, ran>>

PipeNext ==
    \/ LoadMarkdown
    \/ AnalyzeEachDocPrep
    \/ AnalyzeEachDocExec
    \/ AnalyzeEachDocPost
    \/ FinalReport
    \/ EvaluateFinal
    \/ TriggerTool
    \/ WriteReport

PipeSpec == PipeInit /\ [][PipeNext]_pipeVars

----------------------------------------------------------------------------
\* Runs of diffalayze.py over the targets directory of the repository
\*
\* The repository has one target, targets/mrxsmb, whose provider keeps its
\* version-tracking file version.log in that directory. The file outlives a
\* run, so the runs are modelled one after the other: run "all" iterates
\* over the entries of TARGETS_DIR, calls load_and_run for each, waits in
\* monitor, and ends. TARGETS_DIR may also hold symbolic links to the
\* target directory. A job is followed from its start to its end in one
\* step; its steps in between are those of the specification Spec.

MaxLinks == 1        \* symbolic links to the target directory in TARGETS_DIR
MaxVersions == 2     \* versions the winbindex data goes through
MaxRuns == 3         \* runs of diffalayze.py, one after the other

Versions == 1..MaxVersions

\* The entries TARGETS_DIR.iterdir() yields: the directory and the links.
Entries == 1..(links + 1)

\* resolve_target_dir(d.name).name: Path.resolve() follows a link to the
\* directory it points to, so every entry yields the one target directory.
resolve_target_dir(e) == "mrxsmb"

Newline == <<"\n", 0>>
IsSpace(tok) == tok[1] \in {"\n", " "}
RECURSIVE LStrip(_)
LStrip(txt) == IF txt # <<>> /\ IsSpace(Head(txt)) THEN LStrip(Tail(txt)) ELSE txt
RECURSIVE RStrip(_)
RStrip(txt) == IF txt # <<>> /\ IsSpace(txt[Len(txt)])
                 THEN RStrip(SubSeq(txt, 1, Len(txt) - 1)) ELSE txt
\* str.strip()
Strip(txt) == RStrip(LStrip(txt))

\* generate_url: the symbol server URL of version v; file name, timestamp
\* and size are written without white space.
generate_url(v) == << <<"url", v>> >>

NoFile == [exists |-> FALSE, text |-> <<>>]
NoCheck == [kind |-> "none", version |-> 0, seen |-> FALSE, last_known |-> <<>>]

\* What a call of check_and_download can run into:
\*   ok              lookup and (if attempted) both downloads succeed
\*   lookup_raise    git clone fails: CalledProcessError, which the provider
\*                   does not catch
\*   lookup_error    the data file is missing or lists fewer than two versions
\*   download_error  urlretrieve fails: RuntimeError
Incidents == {"ok", "lookup_raise", "lookup_error", "download_error"}

\* The outcomes of a job: archived, engine failed (CalledProcessError),
\* or thread ended by another exception.
JobEnds == {"archived", "failed", "raised"}

\* tracking_file.write_text(new_version_url + "\n"), after both downloads
WriteTracking(url) == [exists |-> TRUE, text |-> url \o <<Newline>>]

UnlinkAlways == NoFile
\* if force and v_log.exists(): v_log.unlink()
Unlink == IF force /\ version_log.exists THEN NoFile ELSE version_log

SameVersionIgnored(url) == FALSE
\* tracking_file.exists() and read_text().strip() == new_version_url
SameVersion(url) == version_log.exists /\ Strip(version_log.text) = url

\* The loop over TARGETS_DIR.iterdir(): the next entry, or monitor.
AfterEntry(e) == IF e + 1 \in Entries THEN "unlink" ELSE "monitor"

OtherSpecsParked ==
    /\ OrchParked
    /\ PipeOff

RunsInit ==
    /\ OtherSpecsParked
    /\ links \in 0..MaxLinks
    /\ latest = 1
    /\ version_log = NoFile
    /\ force \in BOOLEAN
    /\ run = 1
    /\ rpc = "unlink"
    /\ ei = 1
    /\ chk = NoCheck
    /\ pool = <<>>
    /\ reported = {}
    /\ failed = {}

\* load_and_run, lines 211-217: resolve the entry; with --force delete the
\* version.log of the resolved directory.
LoadAndRunUnlink ==
    /\ rpc = "unlink"
    /\ version_log' = Unlink
    /\ rpc' = "check"
    /\ UNCHANGED <<vars, pipeVars, links, latest, force, run, ei, chk, pool,
                   reported, failed>>

\* check_and_download of the provider, called at line 232.
LoadAndRunCheck ==
    /\ rpc = "check"
    /\ \E inc \in Incidents :
         LET new_version_url == generate_url(latest)
             Result(k) == [kind |-> k, version |-> latest,
                           seen |-> version_log.exists,
                           last_known |-> Strip(version_log.text)]
         IN
           IF inc = "lookup_raise"
             THEN /\ rpc' = "crashed"
                  /\ UNCHANGED <<version_log, chk>>
           ELSE IF inc = "lookup_error"
             THEN /\ chk' = Result("error")
                  /\ rpc' = "submit"
                  /\ UNCHANGED version_log
           ELSE IF SameVersion(new_version_url)
             THEN /\ chk' = Result("noupdate")
                  /\ rpc' = "submit"
                  /\ UNCHANGED version_log
           ELSE IF inc = "download_error"
             THEN /\ chk' = Result("error")
                  /\ rpc' = "submit"
                  /\ UNCHANGED version_log
           ELSE /\ version_log' = WriteTracking(new_version_url)
                /\ chk' = Result("pair")
                /\ rpc' = "submit"
    /\ UNCHANGED <<vars, pipeVars, links, latest, force, run, ei, pool,
                   reported, failed>>

\* load_and_run, lines 233-241: a pair starts a job, recorded in the pool
\* under t_dir.name; anything else is logged.
LoadAndRunSubmit ==
    /\ rpc = "submit"
    /\ IF chk.kind = "pair"
         THEN /\ pool' = Append(pool, [n |-> resolve_target_dir(ei),
                                       version |-> chk.version, st |-> "running"])
              /\ reported' = reported \cup {chk.version}
         ELSE UNCHANGED <<pool, reported>>
    /\ chk' = NoCheck
    /\ ei' = IF ei + 1 \in Entries THEN ei + 1 ELSE ei
    /\ rpc' = AfterEntry(ei)
    /\ UNCHANGED <<vars, pipeVars, links, latest, version_log, force, run, failed>>

\* _ghidriff_worker of job i, from its start to the end of its thread.
JobEnd(i) ==
    /\ i \in DOMAIN pool
    /\ pool[i].st = "running"
    /\ \E o \in JobEnds :
         /\ pool' = [pool EXCEPT ![i].st = o]
         /\ failed' = IF o = "failed" THEN failed \cup {pool[i].version}
                                      ELSE failed
    /\ UNCHANGED <<vars, pipeVars, links, latest, version_log, force, run, rpc,
                   ei, chk, reported>>

\* monitor: returns at once on an empty pool, else when its set of the
\* names of ended jobs has as many elements as the pool.
RunMonitor ==
    /\ rpc = "monitor"
    /\ \/ pool = <<>>
       \/ Cardinality({pool[i].n : i \in {k \in DOMAIN pool : pool[k].st # "running"}})
             >= Len(pool)
    /\ rpc' = "ended"
    /\ UNCHANGED <<vars, pipeVars, links, latest, version_log, force, run, ei,
                   chk, pool, reported, failed>>

\* The process has ended (its threads included); diffalayze.py is started
\* again, with or without --force.
NextRun ==
    /\ rpc \in {"ended", "crashed"}
    /\ \A i \in DOMAIN pool : pool[i].st # "running"
    /\ run < MaxRuns
    /\ run' = run + 1
    /\ force' \in BOOLEAN
    /\ rpc' = "unlink"
    /\ ei' = 1
    /\ chk' = NoCheck
    /\ pool' = <<>>
    /\ UNCHANGED <<vars, pipeVars, links, latest, version_log, reported, failed>>

\* A new version of the file appears in the winbindex data.
UpstreamUpdate ==
    /\ latest < MaxVersions
    /\ latest' = latest + 1
    /\ UNCHANGED <<vars, pipeVars, links, version_log, force, run, rpc, ei, chk,
                   pool, reported, failed>>

RunsNext ==
    \/ LoadAndRunUnlink
    \/ LoadAndRunCheck
    \/ LoadAndRunSubmit
    \/ \E i \in Entries : JobEnd(i)
    \/ RunMonitor
    \/ NextRun
    \/ UpstreamUpdate

RunsSpec == RunsInit /\ [][RunsNext]_runVars

----------------------------------------------------------------------------
\* Vocabulary of the properties

Pool == {ghidriff_threads[i].th : i \in 1..Len(ghidriff_threads)}
InQueue(t) == \E i \in 1..Len(analyze_queue) : analyze_queue[i] = t
QueuePos == 1..Len(analyze_queue)

\* Lifecycle of a job: Submitted, Running, then Succeeded or Failed.
Submitted(t) == pc[t] = "wait"
Running(t)   == pc[t] \in {"move", "engine", "archive", "exit"}
Terminal(t)  == pc[t] = "dead"
Succeeded(t) == Terminal(t) /\ engine[t] = "ok" /\ ~raised[t]
Failed(t)    == Terminal(t) /\ ~Succeeded(t)

Executing == {t \in Targets : InEngineSection(t)}

MonitorCalled   == mainpc \in {"mon_enter", "mon_while", "mon_for"}
MonitorReturned == mainpc \in {"analyze", "analyze_wait", "analyze_crashed", "done"}
\* The run is over: the main thread ended its analysis loop, or died in it.
RunEnded        == mainpc \in {"done", "analyze_crashed"}
AnalysisStarted == \E i \in Targets : handed[i] > 0

----------------------------------------------------------------------------
\* C1: for every bound N > 0, in every reachable state at most N jobs are
\* inside run_ghidriff_diff (entered and not yet returned).
C1_AtMostNExecuting ==
    GHIDRIFF_THREADS > 0 => Cardinality(Executing) <= GHIDRIFF_THREADS

\* The bound is binding: N jobs execute while another one waits for a slot.
C1_Witness ==
    /\ GHIDRIFF_THREADS > 0
    /\ Cardinality(Executing) = GHIDRIFF_THREADS
    /\ \E t \in Targets : Submitted(t)

\* C2: when monitor has returned, every job thread of the pool has ended:
\* none is still Submitted or Running.
C2_MonitorReturnsAfterAllTerminal ==
    MonitorReturned => \A t \in Pool : Terminal(t)

\* monitor returned over a pool of several jobs, one of which died raising.
C2_Witness ==
    /\ mainpc = "analyze"
    /\ Cardinality(Pool) >= 2
    /\ \E t \in Pool : raised[t]

C4_SubmitNeverBlocks == mainpc = "dispatch" => ENABLED Dispatch

\* A job was submitted and waits for a slot while all N slots are held by
\* others, and the main thread has moved on past its submission.
C4_Witness ==
    /\ ~sema.none /\ sema.value = 0
    /\ \E t \in Pool : Submitted(t) /\ ti > t
    /\ \E t \in Pool : InEngineSection(t)
    /\ mainpc # "dispatch"

\* C5: with a bound of 0 (a non-positive argument is clamped to 0) there is no
\* semaphore, and a submitted job can always start, whatever the other jobs do.
C5_UnboundedWhenZero ==
    argThreads <= 0 =>
        /\ GHIDRIFF_THREADS = 0
        /\ sema.none
        /\ \A t \in Targets : Submitted(t) => ENABLED WorkerEnter(t)

\* A negative argument, and all jobs of the run execute the engine at once.
C5_Witness ==
    /\ argThreads < 0
    /\ nT = MaxTargets
    /\ \A t \in Targets : pc[t] = "engine"

\* C6: a failing engine invocation stays inside its job: that job is not
\* archived, not queued, keeps its working directory and ran the engine once;
\* a job whose engine succeeded and that ended normally is archived (and
\* queued under --analyze) whatever happened to the others; and every
\* submitted job reaches its end.
C6_Safety ==
    /\ \A t \in Targets :
         engine[t] = "failed" =>
            /\ workdir[t] = "present"
            /\ ~InQueue(t)
            /\ attempts[t] = 1
            /\ pc[t] \in {"exit", "dead"}
    /\ \A t \in Targets :
         Succeeded(t) => workdir[t] = "archived" /\ (ANALYZE => InQueue(t))
    /\ \A t \in Targets : attempts[t] <= 1

C6_FailureIsolated ==
    /\ []C6_Safety
    /\ <>[](\A t \in Targets : ~Submitted(t) /\ ~Running(t))

\* One job failed in the engine, another succeeded and is queued.
C6_Witness ==
    /\ ANALYZE
    /\ \E t \in Targets :
         /\ Failed(t) /\ engine[t] = "failed"
         /\ \E u \in Targets : u # t /\ Succeeded(u) /\ InQueue(u)

\* C7: with analysis enabled, when the run ends every entry of the analysis
\* queue has been handed to exactly one pipeline run, and no entry belongs to
\* a job whose engine failed.
C7_ConsumedExactlyOnce ==
    (ANALYZE /\ RunEnded) =>
        /\ \A i \in QueuePos : handed[i] = 1
        /\ \A i \in QueuePos : engine[analyze_queue[i]] = "ok"

\* C8: a failing pipeline run aborts only its own archive's analysis: when
\* the run ends, every other entry of the queue has been analyzed.
C8_PipelineFailureIsolated ==
    RunEnded =>
        \A i \in QueuePos : \A k \in QueuePos :
            (result[i] = "failed" /\ k # i) => result[k] # "none"

\* C9: once a pipeline run has started, monitor has returned, every job of
\* the run has ended, and every archive of the run is in the queue.
C9_HandOffOrdering ==
    AnalysisStarted =>
        /\ MonitorReturned
        /\ \A t \in Targets : ~Submitted(t) /\ ~Running(t)
        /\ \A t \in Targets : workdir[t] = "archived" => InQueue(t)

\* The first pipeline run is in flight with a queue of several archives.
C9_Witness ==
    /\ handed[1] = 1 /\ inflight = {1}
    /\ Len(analyze_queue) >= 2

\* C10: at most one queue entry is in flight through the pipeline, and the
\* run of an entry has started only when the runs of all entries before it
\* have ended.
C10_NoOverlap ==
    /\ Cardinality(inflight) <= 1
    /\ \A i \in Targets :
         handed[i] > 0 =>
            \A k \in 1..(i - 1) : k \notin inflight /\ result[k] # "none"

\* The second entry is in flight after the first one's run ended.
C10_Witness ==
    /\ inflight = {2}
    /\ result[1] = "ok"

----------------------------------------------------------------------------
\* Vocabulary of the pipeline's properties

\* The order NONE < LOW < MEDIUM < HIGH < CRITICAL.
Rank(l) ==
    CASE l = "NONE"     -> 0
      [] l = "LOW"      -> 1
      [] l = "MEDIUM"   -> 2
      [] l = "HIGH"     -> 3
      [] l = "CRITICAL" -> 4

ContextFields == {"docs", "doc_analyses", "final", "evaluation", "trigger_result"}
StageOrder == <<"load", "analyze", "final", "evaluate", "trigger">>

\* The position of the run at which each field is set.
SetAt(f) ==
    CASE f = "docs"           -> "load"
      [] f = "doc_analyses"   -> "analyze_exec"
      [] f = "final"          -> "final"
      [] f = "evaluation"     -> "evaluate"
      [] f = "trigger_result" -> "trigger"

RunFailed == ppc \in {"failed", "keyerror"}
Evaluated == "evaluation" \in shared.keys
\* The evaluation carries a level of the scale.
LevelOnScale == Evaluated /\ "level" \in shared.evaluation.keys
                          /\ shared.evaluation.level \in LevelSet
\* The evaluation's level is absent, null, or no token of the scale.
LevelUnrecognized ==
    Evaluated /\ ("level" \notin shared.evaluation.keys
                  \/ shared.evaluation.level \in {JsonNull, "BOGUS"})
Fired == Len(trigger_calls) > 0

----------------------------------------------------------------------------
\* C11: a run in which a stage failed writes no report; a report is written
\* only when all five stages have completed, and it is the synthesized text
\* followed by the evaluation section.
C11_FailFastNoPartialReport ==
    /\ RunFailed => report = <<>>
    /\ report # <<>> =>
         /\ ppc = "written"
         /\ \A st \in Stages : ran[st] = 1
         /\ ContextFields \subseteq shared.keys
         /\ Len(report) = 2
         /\ report[1].section = "report" /\ report[1].text = shared.final
         /\ report[2].section = "evaluation"
         /\ report[2].level = Str(Get(shared.evaluation, "level", "UNKNOWN"))

\* A late stage failed: the synthesized text exists and nothing was written.
C11_Witness ==
    /\ ppc = "failed"
    /\ "final" \in shared.keys
    /\ report = <<>>

\* C12: whatever the outcome of the trigger action, the run does not fail
\* and the trigger's outcome is recorded.
C12_TriggerErrorsNotEscalated ==
    Fired => ppc # "failed" /\ "trigger_result" \in shared.keys

\* C13: for a level of the scale, the trigger fires exactly when a command is
\* configured and the level is at or above the threshold; without a command
\* it never fires.
C13_FiresIffThresholdReached ==
    /\ ~trigger_cmd => ~Fired
    /\ (ran["trigger"] = 1 /\ LevelOnScale) =>
          (Fired <=> (trigger_cmd /\
                      Rank(shared.evaluation.level) >= Rank(threshold)))

\* The trigger fired for a level equal to the threshold.
C13_Witness ==
    /\ Fired /\ LevelOnScale
    /\ shared.evaluation.level = threshold
    /\ threshold = "MEDIUM"

\* C14: with a command configured, an evaluation whose level is absent, null
\* or not on the scale never fires the trigger, whatever the threshold.
C14_UnrecognizedNeverFires ==
    (trigger_cmd /\ ran["trigger"] = 1 /\ LevelUnrecognized) => ~Fired

\* C15 as stated: a mapping re-encoded 0 to 3 times decodes to itself, one
\* re-encoded 4 times or more is rejected, in at most 3 parses.
C15_DecodesUpToThreeLayers ==
    (eval_in.given /\ eval_in.json = "mapping") =>
        /\ eval_in.wraps <= 3 =>
              eval_in.ok /\ Evaluated /\ shared.evaluation = eval_in.mapping
        /\ eval_in.wraps >= 4 => ~eval_in.ok
        /\ eval_in.parses <= 3

\* C15 as amended: a mapping re-encoded 0 to 2 times decodes to itself, one
\* re-encoded 3 times or more is rejected and ends the run; no reply takes
\* more than 3 parses.
C15_DecodesUpToTwoLayers ==
    /\ (eval_in.given /\ eval_in.json = "mapping") =>
          /\ eval_in.wraps <= 2 =>
                eval_in.ok /\ Evaluated /\ shared.evaluation = eval_in.mapping
          /\ eval_in.wraps >= 3 => ~eval_in.ok
    /\ eval_in.given => eval_in.parses <= 3
    /\ (eval_in.given /\ ~eval_in.ok) => ppc = "failed" /\ ~Evaluated

\* The deepest reply that still decodes: two layers, three parses.
C15_Witness ==
    /\ eval_in.given /\ eval_in.json = "mapping"
    /\ eval_in.wraps = 2 /\ eval_in.parses = 3
    /\ eval_in.ok /\ shared.evaluation = eval_in.mapping
    /\ "level" \in eval_in.mapping.keys

\* C16: a provider that raises is skipped: the main thread does not end
\* while other targets are still to be fetch-checked.
C16_ProviderErrorIsolated ==
    mainpc = "fetch_crashed" => ti >= nT

\* C17: the step that handles a provider's NoUpdate leaves the pool, the
\* analysis queue and every job as they are.
C17_NoUpdateSubmitsNothing ==
    [][(mainpc = "dispatch" /\ res = "noupdate" /\ ti' # ti) =>
          /\ ghidriff_threads' = ghidriff_threads
          /\ analyze_queue' = analyze_queue
          /\ pc' = pc
          /\ workdir' = workdir]_vars

\* check_and_download has returned False while the pool holds a job.
C17_Witness ==
    /\ mainpc = "dispatch" /\ res = "noupdate"
    /\ Len(ghidriff_threads) >= 1

\* C18: no stage reads a field that is not populated; a populated field keeps
\* its value; each field is set at its own stage; the stages run in the fixed
\* order, each at most once.
C18_ContextInv ==
    /\ ppc # "keyerror"
    /\ \A st \in Stages : ran[st] <= 1
    /\ \A i \in 1..(Len(StageOrder) - 1) :
          ran[StageOrder[i + 1]] <= ran[StageOrder[i]]
    /\ \A i \in 1..Len(StageOrder) :
          ppc = StageOrder[i] =>
             /\ \A k \in 1..(i - 1) : ran[StageOrder[k]] = 1
             /\ \A k \in i..Len(StageOrder) : ran[StageOrder[k]] = 0

C18_ContextStep ==
    \A f \in ContextFields :
       /\ f \in shared.keys => f \in shared'.keys /\ shared'[f] = shared[f]
       /\ (f \notin shared.keys /\ f \in shared'.keys) => ppc = SetAt(f)
       /\ f \notin shared.keys => (f \in shared'.keys \/ shared'[f] = shared[f])

C18_ContextDiscipline == []C18_ContextInv /\ [][C18_ContextStep]_pipeVars

\* A run that set all five fields and wrote its report.
C18_Witness ==
    /\ ppc = "written"
    /\ ContextFields \subseteq shared.keys
    /\ Len(shared.docs) >= 1

\* The text the synthesize stage must send for the loaded documents: their
\* analyses in document order, the separator between them.
ExpectedCombined ==
    LET n == Len(shared.docs) IN
      [j \in 1..(2 * n - 1) |->
         IF j % 2 = 1 THEN <<"analysis", shared.docs[(j + 1) \div 2].path>>
                      ELSE <<"---", 0>>]

\* C19: the documents are loaded in ascending file name order, the per-
\* document calls are issued one at a time in that order, the analyses are
\* stored in that order, one per document, and the synthesize call's input
\* is those analyses joined with the separator.
C19_DocumentOrderPreserved ==
    "docs" \in shared.keys =>
      LET docs == shared.docs
          n == Len(docs) IN
        /\ {docs[i].path : i \in 1..n} = input_dir
        /\ \A i \in 1..(n - 1) : docs[i].path < docs[i + 1].path
        /\ Len(results) <= n
        /\ \A i \in 1..Len(results) :
              /\ results[i].path = docs[i].path
              /\ results[i].analysis = << <<"analysis", docs[i].path>> >>
        /\ \A i \in 1..Len(llm_calls) :
              i <= n => llm_calls[i] =
                          << <<"per_doc", 0>>, <<"\n\n", 0>>, <<"md", docs[i].path>> >>
        /\ ppc = "analyze_exec" => Len(llm_calls) = Len(results)
        /\ "doc_analyses" \in shared.keys =>
              /\ Len(shared.doc_analyses) = n
              /\ \A i \in 1..n :
                    /\ shared.doc_analyses[i].path = docs[i].path
                    /\ shared.doc_analyses[i].analysis =
                          << <<"analysis", docs[i].path>> >>
        /\ ran["final"] = 1 =>
              llm_calls[n + 1] =
                 << <<"final_synthesis", 0>>, <<"\n\n", 0>> >> \o ExpectedCombined

\* The synthesized text of a run over several documents.
C19_Witness ==
    /\ "final" \in shared.keys
    /\ Len(shared.docs) >= 2
    /\ Len(llm_calls) = Len(shared.docs) + 1

\* C20: the action is invoked at most once; when a command is configured and
\* the level reaches the threshold it is invoked once, after the evaluation
\* was stored, with the line <target> <score> <level>; for level HIGH and
\* threshold HIGH the line's level is HIGH.
C20_TriggerOnceWithPayload ==
    /\ Len(trigger_calls) <= 1
    /\ (ran["trigger"] = 1 /\ trigger_cmd /\ LevelOnScale
          /\ Rank(shared.evaluation.level) >= Rank(threshold)) =>
          /\ Len(trigger_calls) = 1
          /\ "evaluation" \in trigger_calls[1].after
          /\ trigger_calls[1].line.target = "target"
          /\ trigger_calls[1].line.level = shared.evaluation.level
          /\ trigger_calls[1].line.score =
                (IF "security_score" \in shared.evaluation.keys
                   THEN shared.evaluation.security_score ELSE "N/A")
          /\ (shared.evaluation.level = "HIGH" /\ threshold = "HIGH") =>
                trigger_calls[1].line.level = "HIGH"

\* The action ran for level HIGH at threshold HIGH.
C20_Witness ==
    /\ Len(trigger_calls) = 1 /\ trigger_calls[1].started
    /\ LevelOnScale /\ shared.evaluation.level = "HIGH" /\ threshold = "HIGH"
    /\ trigger_calls[1].line.level = "HIGH"
    /\ "trigger_result" \in shared.keys

----------------------------------------------------------------------------
\* Vocabulary of the properties of the runs

\* check_and_download has returned and load_and_run is about to act on it.
Returned == rpc = "submit"
ReportsPair == Returned /\ chk.kind = "pair"
\* The version the returned call looked up.
CheckedPair == chk.version
\* The call found its record in place, holding the version it looked up.
RecordHeld == chk.seen /\ chk.last_known = generate_url(chk.version)
\* The pairs reported so far, the one being reported included.
ReportedNow == reported \cup (IF ReportsPair THEN {CheckedPair} ELSE {})
\* TARGETS_DIR holds the target directory only.
NoLinks == links = 0

\* C21: no two jobs of one run that run at the same time are jobs of the
\* same target (directory name).
C21_OneJobPerTarget ==
    \A i \in DOMAIN pool : \A j \in DOMAIN pool :
        (i # j /\ pool[i].st = "running" /\ pool[j].st = "running")
            => pool[i].n # pool[j].n

\* C22: an archive whose sxs_html directory is missing is skipped without a
\* pipeline run, and the step that skips it leaves the main thread in its
\* analysis loop, at the next entry of the queue, which it can then hand over.
C22_SkipInv ==
    /\ \A i \in Targets : result[i] = "skipped" => (i \notin inflight /\ handed[i] = 1)
    /\ (mainpc = "analyze" /\ ANALYZE /\ ai <= Len(analyze_queue))
          => ENABLED RunLlmanalyze

C22_SkipStep ==
    \A i \in Targets :
       (result[i] # "skipped" /\ result'[i] = "skipped") =>
           /\ mainpc' = "analyze"
           /\ ai = i /\ ai' = i + 1
           /\ inflight' = inflight
           /\ analyze_queue' = analyze_queue

C22_MissingDocsSkipped == []C22_SkipInv /\ [][C22_SkipStep]_vars

\* The first archive was skipped and the one after it was analysed.
C22_Witness ==
    /\ Len(analyze_queue) >= 2
    /\ result[1] = "skipped"
    /\ result[2] = "ok"

\* C23 as stated: a call in a run without --force never reports a pair that
\* was reported before (here: in a tree without symbolic links).
C23_NeverReportedTwice ==
    (NoLinks /\ ReportsPair /\ ~force) => CheckedPair \notin reported

\* C23 as amended: a call that finds its record holding the looked-up
\* version never reports a pair, and a call answers NoUpdate only then; a
\* record in place holds the newest version reported for its directory; a
\* call that fails leaves every record as it is.
C23_RecordInv ==
    /\ Returned =>
          /\ RecordHeld => chk.kind \in {"noupdate", "error"}
          /\ chk.kind = "noupdate" => RecordHeld
    /\ version_log.exists =>
          \E v \in ReportedNow :
             /\ Strip(version_log.text) = generate_url(v)
             /\ \A w \in ReportedNow : w <= v

C23_FailedCallStep ==
    (rpc = "check" /\ (rpc' = "crashed" \/ chk'.kind = "error"))
        => version_log' = version_log

C23_IdempotentWhileRecorded == []C23_RecordInv /\ [][C23_FailedCallStep]_runVars

\* A later run without --force gets NoUpdate for a pair reported before.
C23_Witness ==
    /\ Returned /\ chk.kind = "noupdate"
    /\ ~force /\ run >= 2
    /\ CheckedPair \in reported
    /\ CheckedPair \notin failed

\* C24: with a semaphore, the free slots and the jobs between acquire and
\* release add up to N; a job that has ended holds no slot; a job waits for
\* a slot only while N jobs that have not ended hold one; under fair
\* scheduling no job waits forever.
C24_SlotInv ==
    /\ ~sema.none =>
          sema.value + Cardinality({t \in Targets : HoldsSlot(t)}) = GHIDRIFF_THREADS
    /\ \A t \in Targets :
          (pc[t] = "wait" /\ ~ENABLED WorkerEnter(t)) =>
             Cardinality({u \in Targets : IsAlive(u) /\ pc[u] # "wait"})
                = GHIDRIFF_THREADS

C24_NoSlotLeaked == []C24_SlotInv /\ <>[](\A t \in Targets : pc[t] # "wait")

\* A job killed by an exception gave back the only slot, and the job that
\* waited for it has entered.
C24_Witness ==
    /\ GHIDRIFF_THREADS = 1
    /\ \E t \in Targets : \E u \in Targets :
          /\ pc[t] = "dead" /\ raised[t]
          /\ pc[u] = "move"

\* C25 as stated: a pair whose engine run failed is reported again only by a
\* run with --force (here: in a tree without symbolic links).
C25_FailedPairOnlyByForce ==
    (NoLinks /\ ReportsPair /\ CheckedPair \in failed) => force

\* C25 as amended: the record holds the reported version from the moment the
\* pair is returned; a call that finds the record of a failed pair in place
\* does not report it; a failed pair is reported again only by a call that
\* found no record; and a record disappears only by the unlink of a run
\* with --force.
C25_CommitInv ==
    /\ ReportsPair =>
          /\ version_log.exists
          /\ Strip(version_log.text) = generate_url(chk.version)
    /\ (Returned /\ CheckedPair \in failed) =>
          /\ RecordHeld => chk.kind # "pair"
          /\ chk.kind = "pair" => ~chk.seen

C25_UnlinkStep ==
    (version_log.exists /\ ~version_log'.exists) => (force /\ rpc = "unlink")

C25_CommittedBeforeJob == []C25_CommitInv /\ [][C25_UnlinkStep]_runVars

\* After the engine failed for a pair, a run without --force gets NoUpdate.
C25_Witness ==
    /\ Returned /\ chk.kind = "noupdate"
    /\ ~force /\ run >= 2
    /\ pool = <<>>
    /\ CheckedPair \in failed

====
